---- MODULE Spec2Model ----
(***************************************************************************)
(* GlobalSchedule (FWCore/Framework/src/GlobalSchedule.cc): the scheduler  *)
(* of the global transitions.  It owns one WorkerManager per concurrency   *)
(* slot (lumis, runs, process blocks, job), runs beginJob/endJob on the    *)
(* job slot between the pre/post signals of the ActivityRegistry, and      *)
(* replaces or deletes a module in every slot.                             *)
(***************************************************************************)
EXTENDS Integers, Sequences, FiniteSets, TLC

\* ------------------------------------------------------------------ bounds
MaxLumis == 2
MaxRuns == 1
MaxProcessBlocks == 1
MaxModules == 2
MaxInserters == 1
MaxCalls == 3

\* --------------------------------------------------------------- universes
\* Labels of configured modules: proc_pset holds a ParameterSet for each.
ModuleLabels == {"a", "b"}
\* Labels of paths and end paths: they name the status inserters and have no
\* ParameterSet of their own (GlobalSchedule.cc:50-51).
PathLabels == {"p"}
EndPathLabels == {"e"}
TriggerResultsLabel == "TriggerResults"
\* A label no constructor argument ever mentions.
UnknownLabels == {"nonexistent"}
AllLabels == ModuleLabels \cup PathLabels \cup EndPathLabels \cup {TriggerResultsLabel}
\* The module a Worker is built with, and the modules replaceModule is given.
OriginalModule == "impl1"
ReplacementModules == {"impl2"}

VARIABLES
  numberOfConcurrentLumis,          \* prealloc.numberOfLuminosityBlocks()
  numberOfConcurrentRuns,           \* prealloc.numberOfRuns()
  numberOfConcurrentProcessBlocks,  \* numberOfConcurrentProcessBlocks_
  iModulesToUse,                    \* constructor argument: the labels
  inserter,                         \* constructor argument: TRUE iff non-null
  pathStatusInserters,              \* constructor argument: labels of the inserters
  endPathStatusInserters,           \* constructor argument: labels of the inserters
  workerManagers,                   \* workerManagers_: one sequence of Workers per slot
  collector,                        \* the ExceptionCollector of the last call (endJob is handed an empty one)
  call,                             \* the last call: operation, arguments, outcome
  trace,                            \* what the last call invoked, in order
  nCalls,                           \* calls made so far
  excptIn,                          \* handleException: its std::exception_ptr& excpt on entry
  excpt,                            \* handleException: its std::exception_ptr& excpt on return
  result,                           \* getAllModuleDescriptions: the vector it returned
  lifecycle                         \* history: where the calls so far stand in the coordinator's state machine

vars == <<numberOfConcurrentLumis, numberOfConcurrentRuns, numberOfConcurrentProcessBlocks,
          iModulesToUse, inserter, pathStatusInserters, endPathStatusInserters,
          workerManagers, collector, call, trace, nCalls, excptIn, excpt, result, lifecycle>>

ctorArgs == <<numberOfConcurrentLumis, numberOfConcurrentRuns, numberOfConcurrentProcessBlocks,
              iModulesToUse, inserter, pathStatusInserters, endPathStatusInserters>>

\* ---------------------------------------------------------------- helpers
Range(s) == {s[i] : i \in 1..Len(s)}

NoRepeat(s) == \A i, j \in 1..Len(s) : i # j => s[i] # s[j]

BoundedSeq(S, n) == UNION {[1..k -> S] : k \in 0..n}

\* No exception (a null std::exception_ptr).
NoException == [origin |-> "none", who |-> "", context |-> <<>>]

\* A cms::Exception as a signal or a Worker raises it: with or without context.
Raised(origin, who) ==
  {[origin |-> origin, who |-> who, context |-> c] : c \in {<<>>, <<"earlier context">>}}

\* What one signal invocation can do: return, or throw.
SignalOutcomes(signal) == {NoException} \cup Raised(signal, "")

\* One entry of trace.
Event(ev, slot, label, ok) == [ev |-> ev, slot |-> slot, label |-> label, ok |-> ok]

\* ------------------------------------------------- Worker and WorkerManager
\* A Worker: its label, the module it holds, the begin-job calls it has had,
\* and those of them the module it holds now has had.
NewWorker(label) ==
  [label |-> label, module |-> OriginalModule, nBeginJob |-> 0, nModuleBeginJob |-> 0]

\* The labels of the Workers of one WorkerManager.
LabelsOf(wm) == {wm[i].label : i \in 1..Len(wm)}

\* WorkerManager::getWorker / getWorkerForModule: the Worker of the label is
\* made once per WorkerManager; asking again returns the one that exists.
GetWorker(wm, label) == IF label \in LabelsOf(wm) THEN wm ELSE Append(wm, NewWorker(label))

\* Mutant: only the first WorkerManager is asked for the Worker.
GetWorkerInAll_FirstOnly(wms, label) ==
  [s \in 1..Len(wms) |-> IF s = 1 THEN GetWorker(wms[s], label) ELSE wms[s]]

\* the loop `for (auto& wm : workerManagers_) (void)wm.getWorker(...)`
GetWorkerInAll(wms, label) == [s \in 1..Len(wms) |-> GetWorker(wms[s], label)]

\* ParameterSet::getPSetForUpdate(label) != nullptr
HasPSet(label) == label \in ModuleLabels

RECURSIVE AddConfigured(_, _, _)
\* for (auto const& moduleLabel : iModulesToUse) { if (modpset != nullptr) ... }
AddConfigured(wms, labels, i) ==
  IF i > Len(labels) THEN wms
  ELSE AddConfigured(IF HasPSet(labels[i]) THEN GetWorkerInAll(wms, labels[i]) ELSE wms,
                     labels, i + 1)

RECURSIVE AddInserters(_, _, _)
\* for (auto& pathStatusInserter : pathStatusInserters) { for (auto& wm ...) }
AddInserters(wms, labels, i) ==
  IF i > Len(labels) THEN wms
  ELSE AddInserters(GetWorkerInAll(wms, labels[i]), labels, i + 1)

\* numberOfConcurrentJobs_
numberOfConcurrentJobs == 1

\* unsigned int nManagers = lumis + runs + process blocks + jobs
NManagers(L, R, P) == L + R + P + numberOfConcurrentJobs

\* GlobalSchedule::GlobalSchedule: the value of workerManagers_ it leaves.
Constructor(L, R, P, labels, ins, pathIns, endPathIns) ==
  LET empty == [s \in 1..NManagers(L, R, P) |-> <<>>]
      configured == AddConfigured(empty, labels, 1)
      withTR == IF ins THEN GetWorkerInAll(configured, TriggerResultsLabel) ELSE configured
      withPath == AddInserters(withTR, pathIns, 1)
  IN  AddInserters(withPath, endPathIns, 1)

\* The call record of a schedule no call was made on yet.
NoCall == [op |-> "none", label |-> "", module |-> "", thrown |-> NoException]

Init ==
  /\ numberOfConcurrentLumis \in 1..MaxLumis
  /\ numberOfConcurrentRuns \in 1..MaxRuns
  /\ numberOfConcurrentProcessBlocks \in 1..MaxProcessBlocks
  /\ iModulesToUse \in {s \in BoundedSeq(ModuleLabels \cup PathLabels \cup EndPathLabels, MaxModules) :
                          NoRepeat(s)}
  /\ inserter \in BOOLEAN
  /\ pathStatusInserters \in {s \in BoundedSeq(PathLabels, Cardinality(PathLabels)) : NoRepeat(s)}
  /\ endPathStatusInserters \in
       {s \in BoundedSeq(EndPathLabels, Cardinality(EndPathLabels)) : NoRepeat(s)}
  /\ (IF inserter THEN 1 ELSE 0) + Len(pathStatusInserters) + Len(endPathStatusInserters)
       <= MaxInserters
  /\ workerManagers = Constructor(numberOfConcurrentLumis, numberOfConcurrentRuns,
                                  numberOfConcurrentProcessBlocks, iModulesToUse, inserter,
                                  pathStatusInserters, endPathStatusInserters)
  /\ collector = <<>>
  /\ call = NoCall
  /\ trace = <<>>
  /\ nCalls = 0
  /\ excptIn = NoException
  /\ excpt = NoException
  /\ result = <<>>
  /\ lifecycle = "Constructed"

\* ------------------------------------------------------------- job slot
\* Mutant: the index of the first slot instead of the job slot's.
JobManagerIndex_First(L, R, P) == 1

\* managerIndex = numberOfConcurrentLumis_ + numberOfConcurrentRuns_ +
\* numberOfConcurrentProcessBlocks_ (0-based in the code, 1-based here).
JobManagerIndex(L, R, P) == L + R + P + 1

JobSlot == JobManagerIndex(numberOfConcurrentLumis, numberOfConcurrentRuns,
                           numberOfConcurrentProcessBlocks)

\* ------------------------------------------------------ exception context
\* exceptionContext(ex, globalContext, message): context is added to an
\* exception that has none; one that has context keeps it.
ExceptionContext(ex, transition, message) ==
  IF ex.context = <<>> THEN [ex EXCEPT !.context = <<message, transition>>] ELSE ex

\* ExceptionCollector::call(f): f's exception is added to the collector.
CollectorCall(coll, ex) == Append(coll, ex)

\* The exception a Worker's beginJob or endJob raises.
WorkerException(origin, label) == [origin |-> origin, who |-> label, context |-> <<>>]

\* Worker::beginJob on the Worker at wm[i]: counted whether or not it throws.
WorkerBeginJob(wm, i) ==
  [wm EXCEPT ![i].nBeginJob = @ + 1, ![i].nModuleBeginJob = @ + 1]

RECURSIVE WMBeginJob(_, _, _, _, _, _, _)
\* WorkerManager::beginJob(globalContext): beginJob of each Worker in order.
\* The first failure is the one thrown; whether the Workers after a failing
\* one are still begun (stop = FALSE) or not (stop = TRUE) is left open.
WMBeginJob(wm, slot, failing, stop, i, tr, thrown) ==
  IF i > Len(wm) THEN [wm |-> wm, trace |-> tr, thrown |-> thrown]
  ELSE LET fails == wm[i].label \in failing
           wm2 == WorkerBeginJob(wm, i)
           tr2 == Append(tr, Event("Worker::beginJob", slot, wm[i].label, ~fails))
           thrown2 == IF fails /\ thrown = NoException
                        THEN WorkerException("Worker::beginJob", wm[i].label)
                        ELSE thrown
       IN  IF fails /\ stop THEN [wm |-> wm2, trace |-> tr2, thrown |-> thrown2]
           ELSE WMBeginJob(wm2, slot, failing, stop, i + 1, tr2, thrown2)

RECURSIVE WMEndJob(_, _, _, _, _, _)
\* WorkerManager::endJob(collector, globalContext): endJob of every Worker;
\* each failure goes to the collector and the next Worker is still ended.
WMEndJob(wm, slot, failing, i, tr, coll) ==
  IF i > Len(wm) THEN [wm |-> wm, trace |-> tr, collector |-> coll]
  ELSE LET fails == wm[i].label \in failing
       IN  WMEndJob(wm, slot, failing, i + 1,
                    Append(tr, Event("Worker::endJob", slot, wm[i].label, ~fails)),
                    IF fails THEN CollectorCall(coll, WorkerException("Worker::endJob", wm[i].label))
                             ELSE coll)

\* The sets of Workers of wm that may fail a transition: any, when the pre
\* signal let the transition run (otherwise no Worker is reached).
FailingChoices(wm, pre) == IF pre = NoException THEN SUBSET LabelsOf(wm) ELSE {{}}

\* --------------------------------------------------------------- lifecycle
\* The coordinator's state machine Constructed -> BegunJob ->
\* (ReplaceModule | DeleteModule)* -> EndedJob, followed along the calls:
\* "Off" once a call failed or came out of that order.
LifecycleAfter(state, op, failed) ==
  IF failed THEN "Off"
  ELSE CASE op = "beginJob" -> IF state = "Constructed" THEN "BegunJob" ELSE "Off"
         [] op \in {"replaceModule", "deleteModule"} ->
              IF state = "BegunJob" THEN "BegunJob" ELSE "Off"
         [] op = "endJob" -> IF state = "BegunJob" THEN "EndedJob" ELSE "Off"
         [] OTHER -> state

\* A call failed: it threw, something it invoked threw, or it left an
\* exception in the collector.
CallFailed(thrown, tr, coll) ==
  \/ thrown # NoException
  \/ coll # <<>>
  \/ \E i \in 1..Len(tr) : ~tr[i].ok

\* ---------------------------------------------------------------- beginJob
\* Mutant: the catch of the pre signal's exception lacks its `throw;`, so the
\* transition runs after a failed pre signal.
BeginJobGuarded_NoRethrow(wms, managerIndex, pre, failing, stop) ==
  LET tr == <<Event("preBeginJobSignal", 0, "", pre = NoException)>>
      r == WMBeginJob(wms[managerIndex], managerIndex, failing, stop, 1, tr, NoException)
  IN  [wms |-> [wms EXCEPT ![managerIndex] = r.wm], trace |-> r.trace, exceptionPtr |-> r.thrown]

\* Mutant: the catch of the pre signal's exception rethrows it without the
\* call of exceptionContext.
BeginJobGuarded_NoContext(wms, managerIndex, pre, failing, stop) ==
  LET tr == <<Event("preBeginJobSignal", 0, "", pre = NoException)>>
  IN  IF pre # NoException
        THEN [wms |-> wms, trace |-> tr, exceptionPtr |-> pre]
        ELSE LET r == WMBeginJob(wms[managerIndex], managerIndex, failing, stop, 1, tr, NoException)
             IN  [wms |-> [wms EXCEPT ![managerIndex] = r.wm], trace |-> r.trace,
                  exceptionPtr |-> r.thrown]

\* The outer try block of beginJob: the pre signal, then beginJob of the
\* WorkerManager at managerIndex; exceptionPtr is what the block caught.
BeginJobGuarded(wms, managerIndex, pre, failing, stop) ==
  LET tr == <<Event("preBeginJobSignal", 0, "", pre = NoException)>>
  IN  IF pre # NoException
        THEN [wms |-> wms, trace |-> tr,
              exceptionPtr |-> ExceptionContext(pre, "BeginJob",
                                 "Handling pre signal, likely in a service function")]
        ELSE LET r == WMBeginJob(wms[managerIndex], managerIndex, failing, stop, 1, tr, NoException)
             IN  [wms |-> [wms EXCEPT ![managerIndex] = r.wm], trace |-> r.trace,
                  exceptionPtr |-> r.thrown]

\* Mutant: the post signal is emitted only when nothing failed before it.
BeginJobPost_SkippedOnFailure(g, post) ==
  IF g.exceptionPtr # NoException THEN g
  ELSE [wms |-> g.wms,
        trace |-> Append(g.trace, Event("postBeginJobSignal", 0, "", post = NoException)),
        exceptionPtr |->
          IF post # NoException
            THEN ExceptionContext(post, "BeginJob",
                                  "Handling post signal, likely in a service function")
            ELSE NoException]

\* Mutant: the post signal's exception replaces an earlier one (no
\* `if (!exceptionPtr)`).
BeginJobPost_PostWins(g, post) ==
  [wms |-> g.wms,
   trace |-> Append(g.trace, Event("postBeginJobSignal", 0, "", post = NoException)),
   exceptionPtr |->
     IF post # NoException
       THEN ExceptionContext(post, "BeginJob", "Handling post signal, likely in a service function")
       ELSE g.exceptionPtr]

\* The second try block of beginJob: the post signal; its exception is kept
\* only if (!exceptionPtr).
BeginJobPost(g, post) ==
  [wms |-> g.wms,
   trace |-> Append(g.trace, Event("postBeginJobSignal", 0, "", post = NoException)),
   exceptionPtr |->
     IF post # NoException /\ g.exceptionPtr = NoException
       THEN ExceptionContext(post, "BeginJob", "Handling post signal, likely in a service function")
       ELSE g.exceptionPtr]

\* GlobalSchedule::beginJob
beginJob ==
  /\ nCalls < MaxCalls
  /\ \E pre \in SignalOutcomes("preBeginJobSignal"),
        post \in SignalOutcomes("postBeginJobSignal") :
     \E failing \in FailingChoices(workerManagers[JobSlot], pre) :
     \E stop \in (IF failing = {} THEN {TRUE} ELSE BOOLEAN) :
       LET r == BeginJobPost(BeginJobGuarded(workerManagers, JobSlot, pre, failing, stop), post)
       IN  /\ workerManagers' = r.wms
           /\ trace' = r.trace
           \* if (exceptionPtr) std::rethrow_exception(exceptionPtr);
           /\ call' = [op |-> "beginJob", label |-> "", module |-> "", thrown |-> r.exceptionPtr]
           /\ lifecycle' = LifecycleAfter(lifecycle, "beginJob",
                                          CallFailed(r.exceptionPtr, r.trace, <<>>))
  /\ nCalls' = nCalls + 1
  /\ collector' = <<>>
  /\ excptIn' = NoException
  /\ excpt' = NoException
  /\ result' = <<>>
  /\ UNCHANGED ctorArgs

\* ------------------------------------------------------------------ endJob
\* Mutant: endJob of the first WorkerManager instead of the job slot's.
EndJobGuarded_FirstSlot(wms, managerIndex, coll, pre, failing) ==
  LET tr == <<Event("preEndJobSignal", 0, "", pre = NoException)>>
  IN  IF pre # NoException
        THEN [wms |-> wms, trace |-> tr, collector |-> coll,
              exceptionPtr |-> ExceptionContext(pre, "EndJob",
                                 "Handling pre signal, likely in a service function")]
        ELSE LET r == WMEndJob(wms[1], 1, failing, 1, tr, coll)
             IN  [wms |-> [wms EXCEPT ![1] = r.wm], trace |-> r.trace,
                  collector |-> r.collector, exceptionPtr |-> NoException]

\* The outer try block of endJob: the pre signal, then endJob of the
\* WorkerManager at managerIndex, which leaves its Workers' failures in the
\* collector and throws nothing itself.
EndJobGuarded(wms, managerIndex, coll, pre, failing) ==
  LET tr == <<Event("preEndJobSignal", 0, "", pre = NoException)>>
  IN  IF pre # NoException
        THEN [wms |-> wms, trace |-> tr, collector |-> coll,
              exceptionPtr |-> ExceptionContext(pre, "EndJob",
                                 "Handling pre signal, likely in a service function")]
        ELSE LET r == WMEndJob(wms[managerIndex], managerIndex, failing, 1, tr, coll)
             IN  [wms |-> [wms EXCEPT ![managerIndex] = r.wm], trace |-> r.trace,
                  collector |-> r.collector, exceptionPtr |-> NoException]

\* Mutant: the post signal's exception replaces an earlier one (no
\* `if (!exceptionPtr)`).
EndJobPost_PostWins(g, post) ==
  [wms |-> g.wms,
   trace |-> Append(g.trace, Event("postEndJobSignal", 0, "", post = NoException)),
   collector |-> g.collector,
   exceptionPtr |->
     IF post # NoException
       THEN ExceptionContext(post, "EndJob", "Handling post signal, likely in a service function")
       ELSE g.exceptionPtr]

\* The second try block of endJob.
EndJobPost(g, post) ==
  [wms |-> g.wms,
   trace |-> Append(g.trace, Event("postEndJobSignal", 0, "", post = NoException)),
   collector |-> g.collector,
   exceptionPtr |->
     IF post # NoException /\ g.exceptionPtr = NoException
       THEN ExceptionContext(post, "EndJob", "Handling post signal, likely in a service function")
       ELSE g.exceptionPtr]

\* Mutant: the staged exception is dropped instead of handed to the collector.
EndJobReport_Dropped(p) == p.collector

\* if (exceptionPtr) collector.call([&]{ std::rethrow_exception(exceptionPtr); });
EndJobReport(p) ==
  IF p.exceptionPtr # NoException THEN CollectorCall(p.collector, p.exceptionPtr) ELSE p.collector

\* GlobalSchedule::endJob
endJob ==
  /\ nCalls < MaxCalls
  /\ \E pre \in SignalOutcomes("preEndJobSignal"),
        post \in SignalOutcomes("postEndJobSignal") :
     \E failing \in FailingChoices(workerManagers[JobSlot], pre) :
       LET p == EndJobPost(EndJobGuarded(workerManagers, JobSlot, <<>>, pre, failing), post)
       IN  /\ workerManagers' = p.wms
           /\ trace' = p.trace
           /\ collector' = EndJobReport(p)
           \* endJob has no throw of its own: it returns.
           /\ call' = [op |-> "endJob", label |-> "", module |-> "", thrown |-> NoException]
           /\ lifecycle' = LifecycleAfter(lifecycle, "endJob",
                                          CallFailed(NoException, p.trace, EndJobReport(p)))
  /\ nCalls' = nCalls + 1
  /\ excptIn' = NoException
  /\ excpt' = NoException
  /\ result' = <<>>
  /\ UNCHANGED ctorArgs

\* ----------------------------------------------------------- replaceModule
\* Worker* found = nullptr
NoWorker == <<0, 0>>

\* Mutant: the comparison of the labels is inverted.
FirstWithLabel_Mismatch(wm, iLabel) ==
  LET hits == {i \in 1..Len(wm) : wm[i].label # iLabel}
  IN  IF hits = {} THEN 0 ELSE CHOOSE i \in hits : \A j \in hits : i <= j

\* The first Worker of wm whose description()->moduleLabel() == iLabel.
FirstWithLabel(wm, iLabel) ==
  LET hits == {i \in 1..Len(wm) : wm[i].label = iLabel}
  IN  IF hits = {} THEN 0 ELSE CHOOSE i \in hits : \A j \in hits : i <= j

\* The inner loop of replaceModule over wm.allWorkers() of slot s: found is
\* assigned on a match and is left as it was when the slot has no match.
FindWorker(wm, s, iLabel, found) ==
  IF FirstWithLabel(wm, iLabel) = 0 THEN found ELSE <<s, FirstWithLabel(wm, iLabel)>>

\* iMod->replaceModuleFor(found): the Worker found points to gets the module.
ReplaceModuleFor(wms, found, iMod) ==
  [wms EXCEPT ![found[1]][found[2]].module = iMod,
              ![found[1]][found[2]].nModuleBeginJob = 0]

\* found->beginJob(globalContext)
FoundBeginJob(wms, found) == [wms EXCEPT ![found[1]] = WorkerBeginJob(@, found[2])]

\* Mutant: no Worker is begun by replaceModule.
IsJobManager_Never(managerIndex, jobManagerIndex) == FALSE

\* Mutant: the Worker of every slot is begun.
IsJobManager_Always(managerIndex, jobManagerIndex) == TRUE

\* if (managerIndex == jobManagerIndex)
IsJobManager(managerIndex, jobManagerIndex) == managerIndex = jobManagerIndex

\* Mutant: the exception is caught and given context, as in beginJob.
FoundBeginJobThrown_Enriched(label) ==
  ExceptionContext(WorkerException("Worker::beginJob", label), "BeginJob",
                   "Handling pre signal, likely in a service function")

\* found->beginJob(globalContext) stands in no try block: what the Worker
\* throws is what replaceModule throws.
FoundBeginJobThrown(label) == WorkerException("Worker::beginJob", label)

RECURSIVE ReplaceLoop(_, _, _, _, _, _, _, _)
\* The loop of replaceModule from slot managerIndex on (1-based here).
ReplaceLoop(wms, jobManagerIndex, iMod, iLabel, beginFails, managerIndex, found, tr) ==
  IF managerIndex > Len(wms) THEN [wms |-> wms, trace |-> tr, thrown |-> NoException]
  ELSE LET f == FindWorker(wms[managerIndex], managerIndex, iLabel, found)
       IN  IF f = NoWorker THEN [wms |-> wms, trace |-> tr, thrown |-> NoException]
           ELSE LET swapped == ReplaceModuleFor(wms, f, iMod)
                    tr2 == Append(tr, Event("replaceModuleFor", f[1], wms[f[1]][f[2]].label, TRUE))
                IN  IF IsJobManager(managerIndex, jobManagerIndex)
                      THEN LET begun == FoundBeginJob(swapped, f)
                               tr3 == Append(tr2, Event("Worker::beginJob", f[1],
                                                        wms[f[1]][f[2]].label, ~beginFails))
                           IN  IF beginFails
                                 THEN [wms |-> begun, trace |-> tr3,
                                       thrown |-> FoundBeginJobThrown(wms[f[1]][f[2]].label)]
                                 ELSE ReplaceLoop(begun, jobManagerIndex, iMod, iLabel, beginFails,
                                                  managerIndex + 1, f, tr3)
                      ELSE ReplaceLoop(swapped, jobManagerIndex, iMod, iLabel, beginFails,
                                       managerIndex + 1, f, tr2)

\* GlobalSchedule::replaceModule
replaceModule ==
  /\ nCalls < MaxCalls
  /\ \E iLabel \in AllLabels \cup UnknownLabels, iMod \in ReplacementModules,
        beginFails \in BOOLEAN :
       LET r == ReplaceLoop(workerManagers, JobSlot, iMod, iLabel, beginFails, 1, NoWorker, <<>>)
       IN  /\ workerManagers' = r.wms
           /\ trace' = r.trace
           /\ call' = [op |-> "replaceModule", label |-> iLabel, module |-> iMod,
                       thrown |-> r.thrown]
           /\ lifecycle' = LifecycleAfter(lifecycle, "replaceModule",
                                          CallFailed(r.thrown, r.trace, <<>>))
  /\ nCalls' = nCalls + 1
  /\ collector' = <<>>
  /\ excptIn' = NoException
  /\ excpt' = NoException
  /\ result' = <<>>
  /\ UNCHANGED ctorArgs

\* ------------------------------------------------------------ deleteModule
\* WorkerManager::deleteModuleIfExists(label)
DeleteModuleIfExists(wm, iLabel) == SelectSeq(wm, LAMBDA w : w.label # iLabel)

\* Mutant: only the first WorkerManager deletes the module.
DeleteInAll_FirstOnly(wms, iLabel) ==
  [s \in 1..Len(wms) |-> IF s = 1 THEN DeleteModuleIfExists(wms[s], iLabel) ELSE wms[s]]

\* Mutant: the loop stops one WorkerManager short.
DeleteInAll_SkipLast(wms, iLabel) ==
  [s \in 1..Len(wms) |-> IF s < Len(wms) THEN DeleteModuleIfExists(wms[s], iLabel) ELSE wms[s]]

\* for (auto& wm : workerManagers_) wm.deleteModuleIfExists(iLabel);
DeleteInAll(wms, iLabel) == [s \in 1..Len(wms) |-> DeleteModuleIfExists(wms[s], iLabel)]

\* GlobalSchedule::deleteModule
deleteModule ==
  /\ nCalls < MaxCalls
  /\ \E iLabel \in AllLabels \cup UnknownLabels :
       /\ workerManagers' = DeleteInAll(workerManagers, iLabel)
       /\ call' = [op |-> "deleteModule", label |-> iLabel, module |-> "", thrown |-> NoException]
  /\ lifecycle' = LifecycleAfter(lifecycle, "deleteModule", FALSE)
  /\ trace' = <<>>
  /\ nCalls' = nCalls + 1
  /\ collector' = <<>>
  /\ excptIn' = NoException
  /\ excpt' = NoException
  /\ result' = <<>>
  /\ UNCHANGED ctorArgs

\* ------------------------------------------------ getAllModuleDescriptions
RECURSIVE AllWorkers(_, _)
\* GlobalSchedule::allWorkers(): the Workers of the slots from s on, slot by slot.
AllWorkers(wms, s) == IF s > Len(wms) THEN <<>> ELSE wms[s] \o AllWorkers(wms, s + 1)

\* Worker::description(): the ModuleDescription, which holds the label.
Description(w) == [moduleLabel |-> w.label]

\* Mutant: the Workers of the first slot only.
GetAllModuleDescriptions_FirstSlot(wms) ==
  [i \in 1..Len(wms[1]) |-> Description(wms[1][i])]

\* The loop of getAllModuleDescriptions: result.push_back(worker->description())
\* for every Worker of allWorkers().
GetAllModuleDescriptions(wms) ==
  [i \in 1..Len(AllWorkers(wms, 1)) |-> Description(AllWorkers(wms, 1)[i])]

\* GlobalSchedule::getAllModuleDescriptions
getAllModuleDescriptions ==
  /\ nCalls < MaxCalls
  /\ result' = GetAllModuleDescriptions(workerManagers)
  /\ call' = [op |-> "getAllModuleDescriptions", label |-> "", module |-> "",
              thrown |-> NoException]
  /\ trace' = <<>>
  /\ nCalls' = nCalls + 1
  /\ collector' = <<>>
  /\ excptIn' = NoException
  /\ excpt' = NoException
  /\ UNCHANGED <<ctorArgs, workerManagers, lifecycle>>

\* --------------------------------------------------------- handleException
\* The GlobalContext::Transition of the globalContext argument.
GlobalTransitions == {"BeginJob", "EndJob"}

\* actReg_: beginJob and endJob dereference it unchecked, so the constructor
\* is handed a registry.
actReg == TRUE

\* exceptionContext(ost, globalContext): the text written for a GlobalContext.
GlobalContextDescription(transition) == <<"Processing global", transition>>

\* Mutant: the description is written whatever the exception holds.
HandleExceptionOst_Always(ex, transition) == GlobalContextDescription(transition)

\* ost after the test of ex.context().empty(): the description, or nothing.
HandleExceptionOst(ex, transition) ==
  IF ex.context = <<>> THEN GlobalContextDescription(transition) ELSE <<>>

\* addContextAndPrintException(context, ex, disablePrint): a context that is
\* not the empty string is added to the exception, which is then printed
\* unless disablePrint.
AddContextAndPrintException(context, ex, disablePrint) ==
  IF context = <<>> THEN ex ELSE [ex EXCEPT !.context = @ \o context]

\* The first try block: excpt after the exception was given context and printed.
HandleExceptionEnrich(ex, transition, cleaningUpAfterException) ==
  AddContextAndPrintException(HandleExceptionOst(ex, transition), ex, cleaningUpAfterException)

\* Mutant: an exception of the signal takes the place of the handled one
\* and leaves handleException.
EarlyTermination_Escapes(ex, registry, outcome) ==
  [excpt |-> IF registry /\ outcome # NoException THEN outcome ELSE ex,
   thrown |-> IF registry THEN outcome ELSE NoException,
   trace |-> IF registry
             THEN <<Event("preGlobalEarlyTerminationSignal", 0, "", outcome = NoException)>>
             ELSE <<>>]

\* The second try block: the signal is emitted when there is a registry, and
\* catch (...) drops whatever it throws.
EarlyTermination(ex, registry, outcome) ==
  [excpt |-> ex,
   thrown |-> NoException,
   trace |-> IF registry
             THEN <<Event("preGlobalEarlyTerminationSignal", 0, "", outcome = NoException)>>
             ELSE <<>>]

\* The exceptions a caller hands in: one it caught elsewhere, the one the
\* last call threw, or the one an earlier handleException left in the slot.
HandledExceptions == Raised("caller", "") \cup ({call.thrown, excpt} \ {NoException})

\* GlobalSchedule::handleException
handleException ==
  /\ nCalls < MaxCalls
  /\ \E ex \in HandledExceptions, transition \in GlobalTransitions,
        cleaningUpAfterException \in BOOLEAN,
        outcome \in SignalOutcomes("preGlobalEarlyTerminationSignal") :
       LET enriched == HandleExceptionEnrich(ex, transition, cleaningUpAfterException)
           b == EarlyTermination(enriched, actReg, outcome)
       IN  /\ excptIn' = ex
           /\ excpt' = b.excpt
           /\ trace' = <<Event("addContextAndPrintException", 0, "", TRUE)>> \o b.trace
           /\ call' = [op |-> "handleException", label |-> transition, module |-> "",
                       thrown |-> b.thrown]
  /\ nCalls' = nCalls + 1
  /\ collector' = <<>>
  /\ result' = <<>>
  /\ UNCHANGED <<ctorArgs, workerManagers, lifecycle>>

\* ---------------------------------------------------------------- the job
Next ==
  \/ beginJob
  \/ endJob
  \/ replaceModule
  \/ deleteModule
  \/ getAllModuleDescriptions
  \/ handleException

Spec == Init /\ [][Next]_vars

\* ------------------------------------------- replaceModule on any slot array
\* What one WorkerManager can hold: Workers of distinct labels, in any order.
SlotContents ==
  {[i \in 1..Len(labels) |-> NewWorker(labels[i])] :
     labels \in {s \in BoundedSeq(ModuleLabels, MaxModules) : NoRepeat(s)}}

\* workerManagers_ with every WorkerManager filled on its own: the slot arrays
\* replaceModule's loop can be run on, those the constructor builds among them.
InitAnySlots ==
  /\ numberOfConcurrentLumis \in 1..MaxLumis
  /\ numberOfConcurrentRuns \in 1..MaxRuns
  /\ numberOfConcurrentProcessBlocks \in 1..MaxProcessBlocks
  /\ iModulesToUse = <<>>
  /\ inserter = FALSE
  /\ pathStatusInserters = <<>>
  /\ endPathStatusInserters = <<>>
  /\ workerManagers \in [1..NManagers(numberOfConcurrentLumis, numberOfConcurrentRuns,
                                      numberOfConcurrentProcessBlocks) -> SlotContents]
  /\ collector = <<>>
  /\ call = NoCall
  /\ trace = <<>>
  /\ nCalls = 0
  /\ excptIn = NoException
  /\ excpt = NoException
  /\ result = <<>>
  /\ lifecycle = "Constructed"

NextAnySlots == replaceModule

SpecAnySlots == InitAnySlots /\ [][NextAnySlots]_vars

\* ================================================================== claims
\* The labels of the inserter modules the constructor was given.
InserterLabels ==
  (IF inserter THEN {TriggerResultsLabel} ELSE {})
    \cup Range(pathStatusInserters) \cup Range(endPathStatusInserters)

\* The listed labels that have a ParameterSet.
ConfiguredLabels == {l \in Range(iModulesToUse) : HasPSet(l)}

\* The slot count of the constructor arguments, and the job slot's place
\* (the code's index L+R+P, counted from 1 here).
SlotCount == numberOfConcurrentLumis + numberOfConcurrentRuns + numberOfConcurrentProcessBlocks + 1

\* The positions of trace that hold an event of this kind.
Events(ev) == {i \in 1..Len(trace) : trace[i].ev = ev}

\* The positions of trace that hold a failed event of this kind.
Failed(ev) == {i \in Events(ev) : ~trace[i].ok}

\* C1 as stated: after construction there are L+R+P+1 WorkerManagers, each
\* has a Worker for every label with a ParameterSet and for every inserter,
\* and a listed label without ParameterSet has a Worker in no slot.
C1_Original ==
  nCalls = 0 =>
    /\ Len(workerManagers) = SlotCount
    /\ \A s \in 1..Len(workerManagers) :
         /\ ConfiguredLabels \subseteq LabelsOf(workerManagers[s])
         /\ InserterLabels \subseteq LabelsOf(workerManagers[s])
         /\ \A l \in Range(iModulesToUse) : ~HasPSet(l) => l \notin LabelsOf(workerManagers[s])

\* C1 amended: the same, but a listed label without ParameterSet has a
\* Worker in no slot unless a supplied inserter module carries that label;
\* each slot then holds exactly the configured and the inserter labels.
C1_Constructed ==
  nCalls = 0 =>
    /\ Len(workerManagers) = SlotCount
    /\ \A s \in 1..Len(workerManagers) :
         /\ ConfiguredLabels \subseteq LabelsOf(workerManagers[s])
         /\ InserterLabels \subseteq LabelsOf(workerManagers[s])
         /\ \A l \in Range(iModulesToUse) :
              (~HasPSet(l) /\ l \notin InserterLabels) => l \notin LabelsOf(workerManagers[s])
         /\ LabelsOf(workerManagers[s]) = ConfiguredLabels \cup InserterLabels

C1_Witness ==
  /\ nCalls = 0
  /\ ConfiguredLabels # {}
  /\ InserterLabels # {}
  /\ \E l \in Range(iModulesToUse) : ~HasPSet(l) /\ l \notin InserterLabels

\* C2: in every reachable state all WorkerManagers hold the same set of
\* module labels, whatever calls were made and however they ended.
C2_Symmetry ==
  \A s, u \in 1..Len(workerManagers) :
    LabelsOf(workerManagers[s]) = LabelsOf(workerManagers[u])

C2_Witness ==
  /\ call.op = "replaceModule"
  /\ call.thrown # NoException
  /\ \E l \in ConfiguredLabels \cup InserterLabels : l \notin LabelsOf(workerManagers[1])

\* C3: beginJob begins Workers of the slot at index L+R+P only, which is the
\* last slot and in bounds; after a single beginJob call no Worker of another
\* slot has a begin-job invocation.
C3_BeginJobOnlyJobSlot ==
  call.op = "beginJob" =>
    /\ SlotCount \in 1..Len(workerManagers)
    /\ SlotCount = Len(workerManagers)
    /\ \A i \in Events("Worker::beginJob") : trace[i].slot = SlotCount
    /\ nCalls = 1 =>
         \A s \in 1..Len(workerManagers) : \A i \in 1..Len(workerManagers[s]) :
           s # SlotCount => workerManagers[s][i].nBeginJob = 0

C3_Witness ==
  /\ call.op = "beginJob"
  /\ nCalls = 1
  /\ Len(workerManagers[1]) > 0
  /\ \E i \in 1..Len(workerManagers[Len(workerManagers)]) :
       workerManagers[Len(workerManagers)][i].nBeginJob = 1

\* C4: when the pre-begin-job signal throws, no Worker's beginJob is invoked,
\* the post-begin-job signal is still emitted, and beginJob throws the pre
\* signal's exception, also when the post signal throws too.
C4_PreFailure ==
  (call.op = "beginJob" /\ Failed("preBeginJobSignal") # {}) =>
    /\ Events("Worker::beginJob") = {}
    /\ Events("postBeginJobSignal") # {}
    /\ call.thrown.origin = "preBeginJobSignal"

C4_Witness ==
  /\ call.op = "beginJob"
  /\ Failed("preBeginJobSignal") # {}
  /\ Failed("postBeginJobSignal") # {}
  /\ Len(workerManagers[Len(workerManagers)]) > 0

\* C5: on every path of beginJob the post-begin-job signal is emitted exactly
\* once, after the pre signal and after every beginJob of a Worker.
C5_PostOnce ==
  call.op = "beginJob" =>
    /\ Len(trace) >= 2
    /\ trace[1].ev = "preBeginJobSignal"
    /\ Cardinality(Events("postBeginJobSignal")) = 1
    /\ trace[Len(trace)].ev = "postBeginJobSignal"

C5_Witness ==
  /\ call.op = "beginJob"
  /\ call.thrown.origin = "Worker::beginJob"
  /\ Events("postBeginJobSignal") # {}

\* The label of the first Worker whose beginJob failed in the last call.
FirstFailedWorker ==
  LET f == Failed("Worker::beginJob")
  IN  trace[CHOOSE i \in f : \A j \in f : i <= j].label

\* C6: beginJob throws the earliest failure: the pre signal's or the first
\* failed Worker's, whatever the post signal does; the post signal's only when
\* nothing failed before it; nothing when nothing failed.
C6_OneException ==
  call.op = "beginJob" =>
    /\ Failed("preBeginJobSignal") # {} => call.thrown.origin = "preBeginJobSignal"
    /\ Failed("Worker::beginJob") # {} =>
         /\ call.thrown.origin = "Worker::beginJob"
         /\ call.thrown.who = FirstFailedWorker
    /\ (Failed("preBeginJobSignal") = {} /\ Failed("Worker::beginJob") = {}
          /\ Failed("postBeginJobSignal") # {}) => call.thrown.origin = "postBeginJobSignal"
    /\ (Failed("preBeginJobSignal") = {} /\ Failed("Worker::beginJob") = {}
          /\ Failed("postBeginJobSignal") = {}) => call.thrown = NoException

C6_Witness ==
  /\ call.op = "beginJob"
  /\ call.thrown.origin = "postBeginJobSignal"
  /\ Len(workerManagers[Len(workerManagers)]) > 0

\* The positions of collector that hold a signal's exception: the records the
\* schedule itself adds.
Staged == {i \in 1..Len(collector) :
             collector[i].origin \in {"preEndJobSignal", "postEndJobSignal"}}

\* C7: endJob returns normally in every combination of failures; the schedule
\* adds at most one record to the collector: the pre signal's exception if the
\* pre signal failed, else the post signal's if that failed, else none.
C7_EndJobNeverThrows ==
  call.op = "endJob" =>
    /\ call.thrown = NoException
    /\ Cardinality(Staged) <= 1
    /\ Failed("preEndJobSignal") # {} =>
         \E i \in Staged : collector[i].origin = "preEndJobSignal"
    /\ (Failed("preEndJobSignal") = {} /\ Failed("postEndJobSignal") # {}) =>
         \E i \in Staged : collector[i].origin = "postEndJobSignal"
    /\ (Failed("preEndJobSignal") = {} /\ Failed("postEndJobSignal") = {}) => Staged = {}

C7_Witness ==
  /\ call.op = "endJob"
  /\ Failed("Worker::endJob") # {}
  /\ Failed("postEndJobSignal") # {}
  /\ Cardinality(Staged) = 1

\* The positions of trace where endJob of a Worker of the job slot ran.
EndedInJobSlot == {i \in Events("Worker::endJob") : trace[i].slot = SlotCount}

\* C8: when no signal fails, endJob ends every one of the n Workers of the
\* job slot, the collector holds exactly the k failures among them, and endJob
\* does not throw.
C8_EndJobAggregation ==
  (call.op = "endJob" /\ Failed("preEndJobSignal") = {} /\ Failed("postEndJobSignal") = {}) =>
    /\ Cardinality(EndedInJobSlot) = Len(workerManagers[SlotCount])
    /\ {trace[i].label : i \in EndedInJobSlot} = LabelsOf(workerManagers[SlotCount])
    /\ Len(collector) = Cardinality({i \in EndedInJobSlot : ~trace[i].ok})
    /\ \A i \in 1..Len(collector) : collector[i].origin = "Worker::endJob"
    /\ call.thrown = NoException

C8_Witness ==
  /\ call.op = "endJob"
  /\ Failed("preEndJobSignal") = {}
  /\ Failed("postEndJobSignal") = {}
  /\ Len(workerManagers[Len(workerManagers)]) = 3
  /\ Cardinality(Failed("Worker::endJob")) = 2
  /\ Len(collector) = 2

\* One replaceModule call for a label every slot holds.
C9_Step ==
  (/\ call'.op = "replaceModule"
   /\ nCalls' = nCalls + 1
   /\ \A s \in 1..Len(workerManagers) : call'.label \in LabelsOf(workerManagers[s]))
  =>
    /\ Len(workerManagers') = Len(workerManagers)
    /\ Cardinality({i \in 1..Len(trace') : trace'[i].ev = "replaceModuleFor"})
         = Len(workerManagers)
    /\ \A s \in 1..Len(workerManagers) :
         /\ Cardinality({i \in 1..Len(trace') :
                           /\ trace'[i].ev = "replaceModuleFor"
                           /\ trace'[i].slot = s
                           /\ trace'[i].label = call'.label}) = 1
         /\ Len(workerManagers'[s]) = Len(workerManagers[s])
         /\ \A i \in 1..Len(workerManagers[s]) :
              LET old == workerManagers[s][i]
                  new == workerManagers'[s][i]
                  hit == old.label = call'.label
              IN  /\ new.label = old.label
                  /\ new.module = (IF hit THEN call'.module ELSE old.module)
                  /\ new.nBeginJob =
                       old.nBeginJob + (IF hit /\ s = SlotCount THEN 1 ELSE 0)

\* C9: replaceModule, for a label the slots hold, swaps the module of that
\* label's Worker once in every slot and leaves the other Workers alone; the
\* begin-job count of the job slot's Worker of the label grows by one and
\* that of every other Worker by zero.
C9_CrossSlotReplacement == [][C9_Step]_vars

C9_Witness ==
  /\ call.op = "replaceModule"
  /\ Len(workerManagers) >= 2
  /\ \A s \in 1..Len(workerManagers) : \E i \in 1..Len(workerManagers[s]) :
       /\ workerManagers[s][i].label = call.label
       /\ workerManagers[s][i].module = call.module
       /\ workerManagers[s][i].nBeginJob = (IF s = Len(workerManagers) THEN 1 ELSE 0)

\* One replaceModule or deleteModule call for a label no slot holds.
C10_Step ==
  (/\ call'.op \in {"replaceModule", "deleteModule"}
   /\ nCalls' = nCalls + 1
   /\ \A s \in 1..Len(workerManagers) : call'.label \notin LabelsOf(workerManagers[s]))
  =>
    /\ call'.thrown = NoException
    /\ trace' = <<>>
    /\ workerManagers' = workerManagers
    /\ GetAllModuleDescriptions(workerManagers') = GetAllModuleDescriptions(workerManagers)

\* C10: replaceModule and deleteModule of a label bound in no slot return
\* normally, invoke nothing, swap nothing, and leave every slot's Workers and
\* the result of getAllModuleDescriptions as they were.
C10_UnknownLabelNoOp == [][C10_Step]_vars

C10_Witness ==
  /\ call.op = "replaceModule"
  /\ call.label \in UnknownLabels
  /\ Len(workerManagers[1]) > 0
  /\ trace = <<>>

\* One deleteModule call.
C11_Step ==
  (call'.op = "deleteModule" /\ nCalls' = nCalls + 1)
  =>
    /\ call'.thrown = NoException
    /\ trace' = <<>>
    /\ Len(workerManagers') = Len(workerManagers)
    /\ \A s \in 1..Len(workerManagers) :
         LET old == workerManagers[s]
             new == workerManagers'[s]
         IN  /\ LabelsOf(new) = LabelsOf(old) \ {call'.label}
             /\ Len(new) = Len(old) - (IF call'.label \in LabelsOf(old) THEN 1 ELSE 0)
             /\ \A i \in 1..Len(old) :
                  old[i].label # call'.label => \E j \in 1..Len(new) : new[j] = old[i]

\* C11: deleteModule removes the Worker of the label from every slot that
\* holds one, leaves every other Worker of every slot as it was, returns
\* normally also for a slot without the label, and invokes no begin-job, no
\* end-job and no signal.
C11_DeleteEverywhere == [][C11_Step]_vars

C11_Witness ==
  /\ call.op = "deleteModule"
  /\ nCalls = 1
  /\ call.label \in ConfiguredLabels \cup InserterLabels
  /\ Len(workerManagers[1]) > 0
  /\ \A s \in 1..Len(workerManagers) : call.label \notin LabelsOf(workerManagers[s])

\* One handleException call.
C12_Step ==
  (call'.op = "handleException" /\ nCalls' = nCalls + 1)
  =>
    /\ excptIn'.context # <<>> => excpt'.context = excptIn'.context
    /\ excptIn'.context = <<>> => excpt'.context = GlobalContextDescription(call'.label)
    /\ (call.op = "handleException" /\ excptIn' = excpt) => excpt'.context = excpt.context

\* C12: handleException adds the description of the GlobalContext to an
\* exception whose context is empty and adds nothing to one that has context,
\* so handling the exception of the slot a second time leaves the context the
\* first handling gave it.
C12_EnrichOnce == [][C12_Step]_vars

C12_Witness ==
  /\ call.op = "handleException"
  /\ call.label = "EndJob"
  /\ excptIn.context = GlobalContextDescription("BeginJob")
  /\ excpt = excptIn

\* C13: handleException reports the exception first and emits the
\* early-termination signal after that; it returns normally also when the
\* signal throws, and the slot then holds the handled exception with its
\* context, never the signal's.
C13_BroadcastSwallowed ==
  call.op = "handleException" =>
    /\ call.thrown = NoException
    /\ Len(trace) = 2
    /\ trace[1].ev = "addContextAndPrintException"
    /\ trace[2].ev = "preGlobalEarlyTerminationSignal"
    /\ excpt.origin = excptIn.origin
    /\ excpt.who = excptIn.who
    /\ excpt.origin # "preGlobalEarlyTerminationSignal"
    /\ excpt.context # <<>>
    /\ excptIn.context # <<>> => excpt = excptIn

C13_Witness ==
  /\ call.op = "handleException"
  /\ Failed("preGlobalEarlyTerminationSignal") = {2}
  /\ excptIn.context = <<>>
  /\ excpt.origin = "caller"
  /\ excpt.context = GlobalContextDescription("BeginJob")

\* The context of a pre signal's exception after the catch of the signal
\* stage: the one it came with, or the one the stage gave it.
PreSignalContexts(transition) ==
  {<<"earlier context">>, <<"Handling pre signal, likely in a service function", transition>>}

\* One step that ends a beginJob or endJob whose pre signal failed, or that
\* handles the exception of such a beginJob.
C14_Step ==
  /\ (/\ call'.op = "beginJob" /\ nCalls' = nCalls + 1
      /\ \E i \in 1..Len(trace') : trace'[i].ev = "preBeginJobSignal" /\ ~trace'[i].ok)
     => /\ call'.thrown.origin = "preBeginJobSignal"
        /\ call'.thrown.context \in PreSignalContexts("BeginJob")
  /\ (/\ call'.op = "endJob" /\ nCalls' = nCalls + 1
      /\ \E i \in 1..Len(trace') : trace'[i].ev = "preEndJobSignal" /\ ~trace'[i].ok)
     => /\ Len(collector') = 1
        /\ collector'[1].origin = "preEndJobSignal"
        /\ collector'[1].context \in PreSignalContexts("EndJob")
  /\ (/\ call.op = "beginJob" /\ call.thrown.origin = "preBeginJobSignal"
      /\ call'.op = "handleException" /\ nCalls' = nCalls + 1
      /\ excptIn' = call.thrown)
     => excpt' = call.thrown

\* C14: when the pre signal of beginJob or of endJob throws, the exception
\* gets the stage's context only if it came without context, and one that
\* came with context goes on as it is; a handleException that is later given
\* the exception of beginJob adds nothing to it.
C14_SignalStageContext == [][C14_Step]_vars

C14_Witness ==
  /\ call.op = "handleException"
  /\ excptIn.origin = "preBeginJobSignal"
  /\ excptIn.context = <<"Handling pre signal, likely in a service function", "BeginJob">>
  /\ excpt = excptIn

\* C15: when beginJob of the job slot's Worker throws in replaceModule, the
\* call ends there with that exception as the Worker threw it: without added
\* context, with nothing in a collector, and with no signal emitted by the
\* call.
C15_ReplaceThrowsDirectly ==
  call.op = "replaceModule" =>
    /\ Failed("Worker::beginJob") # {} <=> call.thrown # NoException
    /\ call.thrown # NoException =>
         /\ call.thrown = [origin |-> "Worker::beginJob", who |-> call.label, context |-> <<>>]
         /\ Failed("Worker::beginJob") = {Len(trace)}
         /\ trace[Len(trace)].slot = SlotCount
    /\ collector = <<>>
    /\ \A i \in 1..Len(trace) : trace[i].ev \in {"replaceModuleFor", "Worker::beginJob"}

C15_Witness ==
  /\ call.op = "replaceModule"
  /\ call.thrown.origin = "Worker::beginJob"
  /\ Events("replaceModuleFor") # {}

\* One getAllModuleDescriptions call.
C16_Step ==
  (call'.op = "getAllModuleDescriptions" /\ nCalls' = nCalls + 1)
  =>
    /\ workerManagers' = workerManagers
    /\ call'.thrown = NoException
    /\ trace' = <<>>
    /\ (\A s \in 1..Len(workerManagers) :
          LabelsOf(workerManagers[s]) = LabelsOf(workerManagers[1]))
       => Len(result') = Len(workerManagers) * Cardinality(LabelsOf(workerManagers[1]))
    /\ \A label \in AllLabels :
         Cardinality({i \in 1..Len(result') : result'[i].moduleLabel = label})
           = Cardinality({s \in 1..Len(workerManagers) : label \in LabelsOf(workerManagers[s])})

\* C16: getAllModuleDescriptions returns one descriptor for every Worker of
\* every slot, S*n descriptors for S slots that hold n labels each, and
\* changes nothing.
C16_AllDescriptions == [][C16_Step]_vars

C16_Witness ==
  /\ call.op = "getAllModuleDescriptions"
  /\ SlotCount = 4
  /\ Cardinality(LabelsOf(workerManagers[1])) = 2
  /\ Len(result) = 8

\* The positions of trace that hold a replaceModuleFor, in the order of the
\* slots the loop went through: the k-th of them was made for slot k.
SwapOfSlot(k) ==
  CHOOSE i \in Events("replaceModuleFor") :
    Cardinality({j \in Events("replaceModuleFor") : j <= i}) = k

Collected(origin) == {i \in 1..Len(collector) : collector[i].origin = origin}

\* C18: endJob emits the pre signal first and the post signal last, once
\* each; after a failed pre signal no Worker is ended; Workers are ended in
\* the job slot, index L+R+P, only; and the collector gets the post signal's
\* exception exactly when the post signal threw and the stages before it left
\* no exception to endJob, that is, the pre signal did not throw (a Worker's
\* failure stays inside its WorkerManager's endJob, which collects it).
C18_EndJobStaged ==
  call.op = "endJob" =>
    /\ Events("preEndJobSignal") = {1}
    /\ Events("postEndJobSignal") = {Len(trace)}
    /\ Len(trace) >= 2
    /\ Failed("preEndJobSignal") # {} => Events("Worker::endJob") = {}
    /\ Failed("preEndJobSignal") = {} =>
         {trace[i].label : i \in Events("Worker::endJob")} = LabelsOf(workerManagers[SlotCount])
    /\ \A i \in Events("Worker::endJob") :
         trace[i].slot = numberOfConcurrentLumis + numberOfConcurrentRuns
                           + numberOfConcurrentProcessBlocks + 1
    /\ Collected("postEndJobSignal") # {}
         <=> (Failed("postEndJobSignal") # {} /\ Failed("preEndJobSignal") = {})
    /\ Cardinality(Collected("postEndJobSignal")) <= 1

C18_Witness ==
  /\ call.op = "endJob"
  /\ Failed("preEndJobSignal") = {1}
  /\ Failed("postEndJobSignal") = {2}
  /\ LabelsOf(workerManagers[SlotCount]) # {}
  /\ Collected("preEndJobSignal") = {1}
  /\ Collected("postEndJobSignal") = {}

\* One replaceModule call that ends with an exception.
C19_Step ==
  (call'.op = "replaceModule" /\ nCalls' = nCalls + 1 /\ call'.thrown # NoException)
  =>
    /\ Len(workerManagers') = Len(workerManagers)
    /\ \A s \in 1..Len(workerManagers) :
         /\ Len(workerManagers'[s]) = Len(workerManagers[s])
         /\ call'.label \in LabelsOf(workerManagers'[s])
         /\ \A i \in 1..Len(workerManagers[s]) :
              /\ workerManagers'[s][i].label = workerManagers[s][i].label
              /\ workerManagers[s][i].label = call'.label
                   => workerManagers'[s][i].module = call'.module
              /\ workerManagers[s][i].label # call'.label
                   => workerManagers'[s][i] = workerManagers[s][i]

\* C19: a replaceModule that ends with the exception of the job slot's
\* begin-job leaves the replacement in place: the job slot is the last one
\* the loop reaches, so the Worker of the label holds the new module in every
\* slot, the job slot included, and every slot holds the labels it held.
C19_NoRollback == [][C19_Step]_vars

C19_Witness ==
  /\ call.op = "replaceModule"
  /\ nCalls = 1
  /\ call.thrown # NoException
  /\ SlotCount = 4
  /\ \A s \in 1..SlotCount :
       \E i \in 1..Len(workerManagers[s]) :
         /\ workerManagers[s][i].label = call.label
         /\ workerManagers[s][i].module = call.module

\* One call: where it leaves the lifecycle, and what a failure-free beginJob
\* does to a module that a replaceModule before any beginJob put in the job
\* slot.
C20_Step ==
  /\ lifecycle' \in {"BegunJob", "EndedJob"} =>
       \A i \in 1..Len(workerManagers'[SlotCount]) :
         workerManagers'[SlotCount][i].nModuleBeginJob = 1
  /\ (/\ nCalls = 1 /\ call.op = "replaceModule" /\ call.thrown = NoException
      /\ call'.op = "beginJob" /\ nCalls' = 2 /\ call'.thrown = NoException)
     => \A i \in 1..Len(workerManagers'[SlotCount]) :
          workerManagers'[SlotCount][i].nModuleBeginJob =
            (IF workerManagers'[SlotCount][i].label = call.label THEN 2 ELSE 1)

\* C20: along Constructed, beginJob, then replaceModule and deleteModule
\* calls, then endJob, with no failure, every module the job slot holds has
\* had begin-job exactly once, at every point after beginJob and so when
\* endJob runs; a module that replaceModule put in the job slot before
\* beginJob has had begin-job twice after beginJob.
C20_BegunOnce == [][C20_Step]_vars

C20_Witness ==
  /\ lifecycle = "EndedJob"
  /\ call.op = "endJob"
  /\ \E i \in 1..Len(workerManagers[SlotCount]) :
       /\ workerManagers[SlotCount][i].module \in ReplacementModules
       /\ workerManagers[SlotCount][i].nBeginJob = 2
       /\ workerManagers[SlotCount][i].nModuleBeginJob = 1

====
